---- MODULE Spec2Model ----
(***************************************************************************)
(* A model of litmark's MarkdownDirective (src/lib/index.mjs): the render  *)
(* method, the promise pipeline it starts, the options record it merges    *)
(* into, and the value slot of the binding site it updates.                *)
(*                                                                         *)
(* JavaScript runs every handler to completion, so render is one action    *)
(* and every promise reaction (a .then callback) is one action.  Objects   *)
(* are references into a heap: Object.assign writes into its target.       *)
(***************************************************************************)
EXTENDS Naturals, Sequences, FiniteSets, TLC

VARIABLES
    heap,       \* object reference -> own properties: MarkdownDirective.defaultOptions
                \* and the object each render call merges from
    calls,      \* one record per render call, in call order
    value,      \* what the binding site of the directive currently shows
    connected   \* the binding site has not been torn down

vars == <<heap, calls, value, connected>>

----------------------------------------------------------------------------
(* Bounds *)

\* render is called at most this many times.
MaxCalls == 2

\* render is called at most this many times where a call is repeated.
MaxRepeatedCalls == 3

----------------------------------------------------------------------------
(* HTML.  A document is a sequence of nodes; a node has a tag, the value   *)
(* of its class attribute ("" when it has none) and its text content.      *)

Node(tag, cls, text) == [tag |-> tag, cls |-> cls, text |-> text]

\* What is left of an element whose tag the sanitizer discards.
TextNode(text) == Node("#text", "", text)

\* A value the sanitizer collaborator throws on instead of returning.
Unsanitizable == << Node("#unsanitizable", "", "") >>

\* "<p>Loading...</p>"
LoadingParagraph == << Node("p", "", "Loading...") >>

\* A caller's loading markup: "<loading-icon></loading-icon><img><code class=busy>...</code>"
LoadingCustom ==
    << Node("loading-icon", "", ""), Node("img", "", ""), Node("code", "busy", "...") >>

----------------------------------------------------------------------------
(* Options objects *)

Fields == {"includeImages", "includeCodeBlockClassNames", "loadingHTML", "skipSanitization"}

\* The value of MarkdownDirective.defaultOptions as the module initialises it.
InitialDefaultOptions ==
    [ includeImages              |-> FALSE,
      includeCodeBlockClassNames |-> FALSE,
      loadingHTML                |-> LoadingParagraph,
      skipSanitization           |-> FALSE ]

\* The reference held by the static field MarkdownDirective.defaultOptions.
DefaultOptionsRef == [owner |-> "MarkdownDirective.defaultOptions", call |-> 0]

\* The reference to the object the c-th render call merges from: the object
\* its caller passed as options, or the fresh {} made for a missing one.
ArgumentRef(c) == [owner |-> "render.options", call |-> c]

\* A JavaScript value passed as render's second argument.
Undefined == [kind |-> "undefined"]
Obj(props) == [kind |-> "object", props |-> props]
EmptyProps == [f \in {} |-> FALSE]

\* options !== null && options !== void 0 ? options : {}
OrEmptyObject(options) ==
    IF options.kind = "undefined" THEN EmptyProps ELSE options.props

\* The properties of target after Object.assign(target, source): every own
\* property of source is written into target.
AssignedProps(target, source) ==
    [f \in (DOMAIN target) \cup (DOMAIN source) |->
        IF f \in DOMAIN source THEN source[f] ELSE target[f]]

\* The heap with one more object, at ref.
Allocate(h, ref, props) ==
    [r \in (DOMAIN h) \cup {ref} |-> IF r = ref THEN props ELSE h[r]]

\* A merge that leaves its result in the source object.
ObjectAssignHeapIntoSource(h, targetRef, sourceRef) ==
    [h EXCEPT ![sourceRef] = AssignedProps(h[targetRef], h[sourceRef])]

\* Object.assign(targetRef, sourceRef): mutates the target object in the
\* heap, reads the source object, and returns the target reference itself.
ObjectAssignHeap(h, targetRef, sourceRef) ==
    [h EXCEPT ![targetRef] = AssignedProps(h[targetRef], h[sourceRef])]

ObjectAssignResult(targetRef, sourceRef) == targetRef

----------------------------------------------------------------------------
(* The collaborators *)

\* sanitizeHTML.defaults.allowedTags, restricted to the tags of the documents below.
DefaultAllowedTags == {"h1", "p", "pre", "code"}

AllowedTagsFor(options) ==
    IF options.includeImages THEN DefaultAllowedTags \cup {"img"} ELSE DefaultAllowedTags

\* { code: ["*"] } or {}: tag -> allowed class-name patterns.
AllowedClassesFor(options) ==
    IF options.includeCodeBlockClassNames
    THEN [t \in {"code"} |-> {"*"}]
    ELSE [t \in {} |-> {}]

PolicyFor(options) ==
    [allowedTags |-> AllowedTagsFor(options), allowedClasses |-> AllowedClassesFor(options)]

ClassAllowed(policy, tag, cls) ==
    /\ tag \in DOMAIN policy.allowedClasses
    /\ ("*" \in policy.allowedClasses[tag] \/ cls \in policy.allowedClasses[tag])

SanitizeNode(node, policy) ==
    IF node.tag \in policy.allowedTags
    THEN << Node(node.tag,
                 IF ClassAllowed(policy, node.tag, node.cls) THEN node.cls ELSE "",
                 node.text) >>
    ELSE IF node.text = "" THEN << >> ELSE << TextNode(node.text) >>

RECURSIVE SanitizeNodes(_, _)
SanitizeNodes(html, policy) ==
    IF html = << >> THEN << >>
    ELSE SanitizeNode(Head(html), policy) \o SanitizeNodes(Tail(html), policy)

sanitizeHTMLThrows(html) == html = Unsanitizable

\* sanitizeHTML(rawHTML, { allowedTags, allowedClasses }) when it returns.
sanitizeHTML(html, policy) == SanitizeNodes(html, policy)

\* this.sanitizeHTMLWithOptions(rawHTML, options)
sanitizeHTMLWithOptions(rawHTML, options) == sanitizeHTML(rawHTML, PolicyFor(options))

\* unsafeHTML(html): the trusted-HTML wrapping the host inserts unescaped.
unsafeHTML(html) == [kind |-> "TrustedHTML", content |-> html]

\* The markdown texts render is called with.
MdHello == "# Hello"
\* An image reference followed by a fenced code block tagged js.
MdImageAndCode == "![image.jpeg](https://host.com/image.jpeg) ~~~js code ~~~"
MdNull == "null"
MdHooked == "hooked"

Markdowns == {MdHello, MdImageAndCode, MdNull, MdHooked}

\* marked.parse(rawMarkdown, { async: true }) rejects: the input is not a string.
markedRejects(rawMarkdown) == rawMarkdown = MdNull

\* The HTML marked.parse(rawMarkdown, { async: true }) resolves with.
markedParse(rawMarkdown) ==
    CASE rawMarkdown = MdHello -> << Node("h1", "", "Hello") >>
      [] rawMarkdown = MdImageAndCode ->
            << Node("p", "", ""), Node("img", "", ""),
               Node("pre", "", ""), Node("code", "language-js", "code") >>
      [] rawMarkdown = MdHooked -> Unsanitizable
      [] OTHER -> << >>

----------------------------------------------------------------------------
(* The options objects render is called with *)

OptionsInputs ==
    { Undefined,
      Obj([includeImages |-> TRUE]),
      Obj([includeCodeBlockClassNames |-> TRUE]),
      Obj([skipSanitization |-> TRUE]),
      Obj([loadingHTML |-> LoadingCustom, skipSanitization |-> FALSE]),
      Obj([loadingHTML |-> Unsanitizable]) }


----------------------------------------------------------------------------
(* State *)

NoHTML == << >>

\* The slot of a binding site nothing was rendered into yet.
NoValue == [kind |-> "nothing", content |-> NoHTML]

Init ==
    /\ heap = [r \in {DefaultOptionsRef} |-> InitialDefaultOptions]
    /\ calls = << >>
    /\ value = NoValue
    /\ connected = TRUE

CallIds == 1..Len(calls)

\* The options object a call's closure reads through its mergedOptions reference.
MergedOptions(c) == heap[calls[c].mergedOptions]

\* What the host observes of a call at the binding site: render returning or
\* throwing, setValue being called; with the value handed over.
Event(ev, val) == [ev |-> ev, value |-> val]

\* A sanitizer invocation as recorded on the call that made it.
SanitizerCall(phase, html, options) ==
    [phase |-> phase, html |-> html, policy |-> PolicyFor(options)]

\* The pipeline run to its commit inside render, before render returns.
RenderEventsCommitFirst(outcome) == << Event("setValue", outcome.value), outcome >>

\* What the host observes of a call while its render runs: only render's own
\* outcome.  The promise chain is created, never awaited, and its reactions
\* run after render has ended.
RenderEvents(outcome) == << outcome >>

\* A render that computes the placeholder first and creates the chain after:
\* a throwing placeholder leaves the call without a pipeline.
StageAfterRenderPlaceholderFirst(throws) ==
    IF throws THEN "NotStarted" ELSE "ParsingMarkdown"

\* The stage of a call's pipeline when its render ends.  The chain is created
\* and marked.parse is called (lines 22-24) before the placeholder is
\* computed (lines 35-37), so the parse is pending whether or not computing
\* the placeholder throws.
StageAfterRender(throws) == "ParsingMarkdown"

----------------------------------------------------------------------------
(* render(rawMarkdown, options), lines 20-39, up to its return or throw.   *)

\* render reads no connection state: it runs the same on a binding site
\* that has been torn down.  The value render returns becomes the value of
\* the site.  limit bounds the number of calls.
RenderWithin(limit, rawMarkdown, options) ==
    /\ Len(calls) < limit
    /\ LET sourceRef == ArgumentRef(Len(calls) + 1)
           heap0 == Allocate(heap, sourceRef, OrEmptyObject(options))
           heap1 == ObjectAssignHeap(heap0, DefaultOptionsRef, sourceRef)
           mergedRef == ObjectAssignResult(DefaultOptionsRef, sourceRef)
           merged == heap1[mergedRef]
           skips == merged.skipSanitization
           throws == ~skips /\ sanitizeHTMLThrows(merged.loadingHTML)
           placeholderHTML ==
               IF skips THEN merged.loadingHTML
               ELSE sanitizeHTMLWithOptions(merged.loadingHTML, merged)
           result == unsafeHTML(placeholderHTML)
           outcome == IF throws THEN Event("throw", NoValue)
                                ELSE Event("return", result)
       IN
       /\ heap' = heap1
       /\ calls' = Append(calls,
             [ rawMarkdown |-> rawMarkdown,
               options |-> options,
               mergedOptions |-> mergedRef,
               mergedAtRender |-> merged,
               stage |-> StageAfterRender(throws),
               parserCalls |-> 1,
               rawHTML |-> NoHTML,
               finalDecision |-> "none",
               preparedHTML |-> NoHTML,
               events |-> RenderEvents(outcome),
               sanitizerCalls |->
                   IF skips THEN << >>
                   ELSE << SanitizerCall("placeholder", merged.loadingHTML, merged) >> ])
       /\ value' = IF throws THEN value ELSE result
       /\ UNCHANGED connected

Render(rawMarkdown, options) == RenderWithin(MaxCalls, rawMarkdown, options)

RenderRepeated(rawMarkdown, options) == RenderWithin(MaxRepeatedCalls, rawMarkdown, options)

----------------------------------------------------------------------------
(* The pipeline of a call: the promise chain of lines 22-34.  Its stages:  *)
(*   ParsingMarkdown          marked.parse's promise is pending            *)
(*   SanitizingOrPassthrough  the first reaction (lines 25-30) is queued   *)
(*   AwaitingCommit           the second reaction (lines 31-34) is queued  *)
(*   ValueCommitted           the chain is fulfilled                       *)
(*   Failed                   the chain is rejected, with no handler       *)

SetStage(c, stage) == [calls EXCEPT ![c].stage = stage]

\* Line 23: marked.parse's promise fulfils and the outer promise is resolved
\* with its result.
ParseResolve(c) ==
    /\ calls[c].stage = "ParsingMarkdown"
    /\ ~markedRejects(calls[c].rawMarkdown)
    /\ calls' = [calls EXCEPT ![c].stage = "SanitizingOrPassthrough",
                              ![c].rawHTML = markedParse(calls[c].rawMarkdown)]
    /\ UNCHANGED <<heap, value, connected>>

\* A rejection recovered locally: the chain goes on with empty content.
ParseRejectRecovers(c) ==
    /\ calls[c].stage = "ParsingMarkdown"
    /\ markedRejects(calls[c].rawMarkdown)
    /\ calls' = SetStage(c, "AwaitingCommit")
    /\ UNCHANGED <<heap, value, connected>>

\* A timer that rejects the chain of a call whose parse is still pending.
ParseTimesOut(c) ==
    /\ calls[c].stage = "ParsingMarkdown"
    /\ calls' = SetStage(c, "Failed")
    /\ UNCHANGED <<heap, value, connected>>

\* Line 23: marked.parse's promise rejects; no reaction of the chain handles
\* a rejection, so the chain ends rejected.
ParseReject(c) ==
    /\ calls[c].stage = "ParsingMarkdown"
    /\ markedRejects(calls[c].rawMarkdown)
    /\ calls' = SetStage(c, "Failed")
    /\ UNCHANGED <<heap, value, connected>>

\* A first reaction that does not wait for the parser: it runs on whatever
\* the call holds as parser output, also while the parse is pending.
SanitizeOrPassthroughEagerly(c) ==
    /\ calls[c].stage \in {"ParsingMarkdown", "SanitizingOrPassthrough"}
    /\ LET rawHTML == calls[c].rawHTML
           mergedOptions == MergedOptions(c)
       IN
       IF mergedOptions.skipSanitization
       THEN calls' = [calls EXCEPT ![c].stage = "AwaitingCommit",
                                   ![c].finalDecision = "passthrough",
                                   ![c].preparedHTML = rawHTML]
       ELSE calls' = [calls EXCEPT
                ![c].stage = "AwaitingCommit",
                ![c].finalDecision = "sanitize",
                ![c].preparedHTML = sanitizeHTMLWithOptions(rawHTML, mergedOptions),
                ![c].sanitizerCalls = Append(@, SanitizerCall("final", rawHTML, mergedOptions))]
    /\ UNCHANGED <<heap, value, connected>>

\* Lines 25-30: the first reaction, run with the parser's output.
SanitizeOrPassthrough(c) ==
    /\ calls[c].stage = "SanitizingOrPassthrough"
    /\ LET rawHTML == calls[c].rawHTML
           mergedOptions == MergedOptions(c)
       IN
       IF mergedOptions.skipSanitization
       THEN calls' = [calls EXCEPT ![c].stage = "AwaitingCommit",
                                   ![c].finalDecision = "passthrough",
                                   ![c].preparedHTML = rawHTML]
       ELSE IF sanitizeHTMLThrows(rawHTML)
       THEN calls' = [calls EXCEPT
                ![c].stage = "Failed",
                ![c].finalDecision = "sanitize",
                ![c].sanitizerCalls = Append(@, SanitizerCall("final", rawHTML, mergedOptions))]
       ELSE calls' = [calls EXCEPT
                ![c].stage = "AwaitingCommit",
                ![c].finalDecision = "sanitize",
                ![c].preparedHTML = sanitizeHTMLWithOptions(rawHTML, mergedOptions),
                ![c].sanitizerCalls = Append(@, SanitizerCall("final", rawHTML, mergedOptions))]
    /\ UNCHANGED <<heap, value, connected>>

\* A second reaction that pushes the value twice.
CommitTwice(c) ==
    /\ calls[c].stage = "AwaitingCommit"
    /\ LET renderedHTML == unsafeHTML(calls[c].preparedHTML)
       IN
       /\ calls' = [calls EXCEPT
                ![c].stage = "ValueCommitted",
                ![c].events = @ \o << Event("setValue", renderedHTML),
                                      Event("setValue", renderedHTML) >>]
       /\ value' = renderedHTML
    /\ UNCHANGED <<heap, connected>>

\* A second reaction that drops its result when a later call has superseded it.
CommitUnlessSuperseded(c) ==
    /\ calls[c].stage = "AwaitingCommit"
    /\ LET renderedHTML == unsafeHTML(calls[c].preparedHTML)
       IN
       IF c = Len(calls)
       THEN /\ calls' = [calls EXCEPT
                     ![c].stage = "ValueCommitted",
                     ![c].events = Append(@, Event("setValue", renderedHTML))]
            /\ value' = renderedHTML
       ELSE /\ calls' = SetStage(c, "ValueCommitted")
            /\ value' = value
    /\ UNCHANGED <<heap, connected>>

\* Lines 31-34: the second reaction, this.setValue(unsafeHTML(preparedHTML)).
Commit(c) ==
    /\ calls[c].stage = "AwaitingCommit"
    /\ LET renderedHTML == unsafeHTML(calls[c].preparedHTML)
       IN
       /\ calls' = [calls EXCEPT
                ![c].stage = "ValueCommitted",
                ![c].events = Append(@, Event("setValue", renderedHTML))]
       /\ value' = renderedHTML
    /\ UNCHANGED <<heap, connected>>

\* The host tears the binding site down.  MarkdownDirective overrides no
\* disconnected hook, so nothing of the directive's own state changes.
Disconnect ==
    /\ connected
    /\ connected' = FALSE
    /\ UNCHANGED <<heap, calls, value>>

\* The host puts the binding site back.  MarkdownDirective overrides no
\* reconnected hook either.
Reconnect ==
    /\ ~connected
    /\ connected' = TRUE
    /\ UNCHANGED <<heap, calls, value>>

Next ==
    \/ \E rawMarkdown \in Markdowns, options \in OptionsInputs :
          Render(rawMarkdown, options)
    \/ \E c \in CallIds : ParseResolve(c)
    \/ \E c \in CallIds : ParseReject(c)
    \/ \E c \in CallIds : SanitizeOrPassthrough(c)
    \/ \E c \in CallIds : Commit(c)
    \/ Disconnect
    \/ Reconnect

Spec == Init /\ [][Next]_vars

\* The same program with room for a call, a second call between, and the
\* first call made again.
NextRepeated ==
    \/ \E rawMarkdown \in Markdowns, options \in OptionsInputs :
          RenderRepeated(rawMarkdown, options)
    \/ \E c \in CallIds : ParseResolve(c)
    \/ \E c \in CallIds : ParseReject(c)
    \/ \E c \in CallIds : SanitizeOrPassthrough(c)
    \/ \E c \in CallIds : Commit(c)
    \/ Disconnect
    \/ Reconnect

SpecRepeated == Init /\ [][NextRepeated]_vars

----------------------------------------------------------------------------
(* Observations used by the properties below *)

\* The events of call c, by position.
EventAt(c, i) == calls[c].events[i]
EventIndices(c) == 1..Len(calls[c].events)

\* The positions among call c's events of the setValue calls of its pipeline.
SetValuesOf(c) == {i \in EventIndices(c) : EventAt(c, i).ev = "setValue"}

\* The positions among call c's events at which its render returned its placeholder.
ReturnsOf(c) == {i \in EventIndices(c) : EventAt(c, i).ev = "return"}

\* The positions among call c's events at which its render ended, returning or throwing.
RenderEndsOf(c) == {i \in EventIndices(c) : EventAt(c, i).ev \in {"return", "throw"}}

\* The caller's options object sets field f.
Sets(options, f) == options.kind = "object" /\ f \in DOMAIN options.props

\* The sanitizer invocations call c made for its final content.
FinalSanitizerCalls(c) ==
    {i \in 1..Len(calls[c].sanitizerCalls) : calls[c].sanitizerCalls[i].phase = "final"}

HasTag(html, tag) == \E i \in 1..Len(html) : html[i].tag = tag
HasClass(html) == \E i \in 1..Len(html) : html[i].cls # ""

----------------------------------------------------------------------------
(* C1: a render call uses the documented default for every option field it *)
(* leaves unset, whatever render calls came before; a call with no options *)
(* returns the sanitized form of "<p>Loading...</p>".                      *)

C1_UnsetFieldsTakeDefaults ==
    \A c \in CallIds :
        /\ \A f \in Fields :
              ~Sets(calls[c].options, f)
                 => calls[c].mergedAtRender[f] = InitialDefaultOptions[f]
        /\ calls[c].options = Undefined
              => \E i \in ReturnsOf(c) :
                    EventAt(c, i).value =
                        [kind |-> "TrustedHTML", content |-> LoadingParagraph]

(* C2: MarkdownDirective.defaultOptions holds in every state the values it *)
(* was initialised with.                                                   *)

C2_DefaultOptionsNeverMutated == heap[DefaultOptionsRef] = InitialDefaultOptions

\* A step taken after teardown in which no pipeline calls setValue.
C3_Step ==
    ~connected =>
        \A c \in CallIds : \A i \in 1..Len(calls'[c].events) :
            i > Len(calls[c].events) => calls'[c].events[i].ev # "setValue"

(* C3: once the binding site is torn down, no pipeline calls setValue: no  *)
(* step taken from a torn-down state is a setValue.                        *)

C3_NoSetValueAfterTeardown == [][C3_Step]_vars

(* C4: the asynchronous stage of a call decides whether to sanitize, and   *)
(* with which policy, from the options merged for that same call.          *)

C4_PipelineUsesItsOwnCallsOptions ==
    \A c \in CallIds :
        /\ calls[c].finalDecision = "passthrough" => calls[c].mergedAtRender.skipSanitization
        /\ calls[c].finalDecision = "sanitize" => ~calls[c].mergedAtRender.skipSanitization
        /\ \A i \in FinalSanitizerCalls(c) :
              calls[c].sanitizerCalls[i].policy = PolicyFor(calls[c].mergedAtRender)

(* C5, as stated: every setValue of a call's pipeline comes after that     *)
(* call's render has returned its placeholder.                             *)

C5_PlaceholderReturnedBeforeCommit ==
    \A c \in CallIds : \A i \in SetValuesOf(c) : \E j \in ReturnsOf(c) : j < i

(* C5, amended: every setValue of a call's pipeline comes after that       *)
(* call's render has ended, and after the placeholder when render returned *)
(* one; a render that throws while computing the placeholder returns none. *)

C5_RenderEndsBeforeCommit ==
    \A c \in CallIds : \A i \in SetValuesOf(c) :
        /\ \E j \in RenderEndsOf(c) : j < i
        /\ \A j \in ReturnsOf(c) : j < i

C5_Witness ==
    \E c \in CallIds : \E i \in SetValuesOf(c) : \E j \in ReturnsOf(c) : j < i

(* C6: the pipeline of a call has called setValue exactly once when it has *)
(* resolved and never otherwise, and what it passed is the trusted-HTML    *)
(* wrapping of the prepared HTML.                                          *)

C6_SetValueExactlyOnce ==
    \A c \in CallIds :
        /\ Cardinality(SetValuesOf(c)) = (IF calls[c].stage = "ValueCommitted" THEN 1 ELSE 0)
        /\ \A i \in SetValuesOf(c) :
              EventAt(c, i).value = [kind |-> "TrustedHTML", content |-> calls[c].preparedHTML]

C6_Witness ==
    \E c \in CallIds :
        /\ calls[c].stage = "ValueCommitted"
        /\ Cardinality(SetValuesOf(c)) = 1
        /\ calls[c].preparedHTML # calls[c].rawHTML

\* A step in which every failing pipeline fails without a trace: a rejected
\* parse or a throwing sanitize stage leads nowhere but to Failed, the step
\* into Failed leaves the value slot and the call's events alone, a Failed
\* call has called setValue never, and Failed is final.
C7_Step ==
    \A c \in CallIds :
        LET before == calls[c]
            after == calls'[c]
        IN
        /\ (before.stage = "ParsingMarkdown" /\ markedRejects(before.rawMarkdown))
              => after.stage \in {"ParsingMarkdown", "Failed"}
        /\ (/\ before.stage = "SanitizingOrPassthrough"
            /\ ~MergedOptions(c).skipSanitization
            /\ sanitizeHTMLThrows(before.rawHTML))
              => after.stage \in {"SanitizingOrPassthrough", "Failed"}
        /\ (before.stage # "Failed" /\ after.stage = "Failed")
              => (value' = value /\ after.events = before.events)
        /\ after.stage = "Failed"
              => \A i \in 1..Len(after.events) : after.events[i].ev # "setValue"
        /\ before.stage = "Failed" => after = before

(* C7: a pipeline whose parse rejects or whose sanitize stage throws ends  *)
(* Failed and stays there (no retry), calls setValue neither before nor    *)
(* after, and its failure leaves the value slot as it was.                 *)

C7_FailureCommitsNothing == [][C7_Step]_vars

C7_Witness ==
    /\ \E c \in CallIds :
          calls[c].stage = "Failed" /\ markedRejects(calls[c].rawMarkdown)
    /\ \E c \in CallIds :
          calls[c].stage = "Failed" /\ calls[c].finalDecision = "sanitize"
    /\ value.kind = "TrustedHTML"

(* C8: a call made with skipSanitization=true never invokes the sanitizer: *)
(* it returns the raw loadingHTML and commits the raw parser output.       *)

C8_SkipSanitizationNeverSanitizes ==
    \A c \in CallIds :
        (Sets(calls[c].options, "skipSanitization") /\ calls[c].options.props.skipSanitization)
        => /\ calls[c].sanitizerCalls = << >>
           /\ \A i \in ReturnsOf(c) :
                 EventAt(c, i).value =
                    [kind |-> "TrustedHTML", content |-> calls[c].mergedAtRender.loadingHTML]
           /\ \A i \in SetValuesOf(c) :
                 EventAt(c, i).value =
                    [kind |-> "TrustedHTML", content |-> markedParse(calls[c].rawMarkdown)]

(* C9: the allowed tag set a call's sanitizer invocations use contains img *)
(* exactly when that call's own options set includeImages to true, and the *)
(* sanitized value committed by a call that does not enable images has no  *)
(* image tag.                                                              *)

C9_ImagesOnlyWhenCallEnablesThem ==
    \A c \in CallIds :
        LET enabled == /\ Sets(calls[c].options, "includeImages")
                       /\ calls[c].options.props.includeImages
        IN
        /\ \A i \in 1..Len(calls[c].sanitizerCalls) :
              ("img" \in calls[c].sanitizerCalls[i].policy.allowedTags) <=> enabled
        /\ (~enabled /\ calls[c].finalDecision = "sanitize")
              => \A i \in SetValuesOf(c) : ~HasTag(EventAt(c, i).value.content, "img")

(* C10: the policy a call's sanitizer invocations use allows class names   *)
(* on code elements (wildcard) exactly when that call's own options set    *)
(* includeCodeBlockClassNames to true and allows none on any tag           *)
(* otherwise, so that the sanitized value committed by a call that does    *)
(* not enable them carries no class.                                       *)

C10_CodeClassesOnlyWhenCallEnablesThem ==
    \A c \in CallIds :
        LET enabled == /\ Sets(calls[c].options, "includeCodeBlockClassNames")
                       /\ calls[c].options.props.includeCodeBlockClassNames
        IN
        /\ \A i \in 1..Len(calls[c].sanitizerCalls) :
              calls[c].sanitizerCalls[i].policy.allowedClasses =
                 (IF enabled THEN [t \in {"code"} |-> {"*"}] ELSE [t \in {} |-> {}])
        /\ (~enabled /\ calls[c].finalDecision = "sanitize")
              => \A i \in SetValuesOf(c) : ~HasClass(EventAt(c, i).value.content)

(* C11: two render calls with the same rawMarkdown and the same options    *)
(* commit identical values, whatever other render calls happen before,     *)
(* between or during them.                                                 *)

C11_SameCallSameCommittedValue ==
    \A c \in CallIds, d \in CallIds :
        (/\ calls[c].rawMarkdown = calls[d].rawMarkdown
         /\ calls[c].options = calls[d].options)
        => \A i \in SetValuesOf(c), j \in SetValuesOf(d) :
              EventAt(c, i).value = EventAt(d, j).value

\* A step in which every pipeline that leaves its last stage delivers: it
\* calls setValue with its own output, and the value slot holds that output
\* after the step, whether or not a later call has already committed.
C12_Step ==
    \A c \in CallIds :
        (calls[c].stage = "AwaitingCommit" /\ calls'[c].stage # "AwaitingCommit")
        => /\ calls'[c].stage = "ValueCommitted"
           /\ calls'[c].events =
                 Append(calls[c].events,
                        Event("setValue", [kind |-> "TrustedHTML",
                                           content |-> calls[c].preparedHTML]))
           /\ value' = [kind |-> "TrustedHTML", content |-> calls[c].preparedHTML]

(* C12: re-invocation is not last-call-wins: the pipeline of every call    *)
(* delivers its result into the value slot when it completes, also when a  *)
(* later call has committed before it, so the slot then holds the earlier  *)
(* call's output.                                                          *)

C12_EveryPipelineDeliversOnCompletion == [][C12_Step]_vars

\* Both calls have committed, different values, and the slot of the live
\* binding site holds the earlier call's.
C12_Witness ==
    /\ connected
    /\ Len(calls) = 2
    /\ calls[1].stage = "ValueCommitted" /\ calls[2].stage = "ValueCommitted"
    /\ \E i \in SetValuesOf(1), j \in SetValuesOf(2) :
          /\ value = EventAt(1, i).value
          /\ value # EventAt(2, j).value

\* The stages of a pipeline in which a promise is pending or a reaction is
\* queued, and the steps a pipeline can take between stages.
AsynchronousStages == {"ParsingMarkdown", "SanitizingOrPassthrough"}

StageTransitions ==
    { <<"ParsingMarkdown", "SanitizingOrPassthrough">>,
      <<"ParsingMarkdown", "Failed">>,
      <<"SanitizingOrPassthrough", "AwaitingCommit">>,
      <<"SanitizingOrPassthrough", "Failed">>,
      <<"AwaitingCommit", "ValueCommitted">> }

\* What every state shows of the order within a call: one parser invocation,
\* no sanitize/passthrough decision while the parse is pending, no setValue
\* before the decision is made, none in a failed pipeline.
StagesInOrder(c) ==
    /\ calls[c].parserCalls = 1
    /\ calls[c].stage = "ParsingMarkdown"
          => calls[c].rawHTML = NoHTML /\ calls[c].finalDecision = "none"
    /\ calls[c].stage \in AsynchronousStages \cup {"AwaitingCommit", "Failed"}
          => SetValuesOf(c) = {}
    /\ calls[c].stage \in {"AwaitingCommit", "ValueCommitted"}
          => calls[c].finalDecision # "none"
    /\ (calls[c].stage = "Failed" /\ calls[c].finalDecision = "none")
          => markedRejects(calls[c].rawMarkdown)

(* C13, as stated: every call follows Idle -> PlaceholderEmitted ->         *)
(* ParsingMarkdown -> SanitizingOrPassthrough -> ValueCommitted: a call in  *)
(* any stage of its pipeline has emitted its placeholder, and the stages    *)
(* come in order.                                                          *)

C13_PipelineFollowsPlaceholder ==
    \A c \in CallIds : ReturnsOf(c) # {} /\ StagesInOrder(c)

\* A step in which every pipeline moves along the sequence only: a call
\* starts in ParsingMarkdown with its render ended, returning or throwing;
\* it changes stage only along a transition of the sequence; the parser is
\* invoked once; the sanitize/passthrough decision is made only in the step
\* that leaves SanitizingOrPassthrough, and setValue is called only in the
\* step that leaves the stage after it.
C13_Step ==
    /\ \A c \in CallIds :
          LET before == calls[c]
              after == calls'[c]
          IN
          /\ after.stage # before.stage
                => <<before.stage, after.stage>> \in StageTransitions
          /\ after.parserCalls = 1 /\ before.parserCalls = 1
          /\ after.finalDecision # before.finalDecision
                => before.stage = "SanitizingOrPassthrough" /\ before.rawHTML = markedParse(before.rawMarkdown)
          /\ after.events # before.events
                => before.stage = "AwaitingCommit" /\ before.finalDecision # "none"
          /\ after.stage = "Failed" => before.stage \in AsynchronousStages \cup {"Failed"}
    /\ \A c \in (1..Len(calls')) \ CallIds :
          /\ calls'[c].stage = "ParsingMarkdown"
          /\ calls'[c].parserCalls = 1
          /\ Len(calls'[c].events) = 1
          /\ calls'[c].events[1].ev \in {"return", "throw"}

(* C13, amended: every call runs exactly one sequential pipeline           *)
(* ParsingMarkdown -> SanitizingOrPassthrough -> ValueCommitted, started   *)
(* by render before it computes the placeholder, so whether or not render  *)
(* returns one: one parser invocation, the decision only after the parse   *)
(* has completed, the commit only after the decision, Failed only from the *)
(* two asynchronous stages.                                                *)

C13_PipelineStagesInOrder == [][C13_Step]_vars

C13_Witness ==
    /\ \E c \in CallIds :
          /\ calls[c].stage = "ValueCommitted"
          /\ calls[c].finalDecision = "sanitize"
          /\ ReturnsOf(c) = {}
    /\ \E c \in CallIds :
          /\ calls[c].stage = "Failed"
          /\ calls[c].finalDecision = "sanitize"
          /\ ReturnsOf(c) # {}

\* The sanitizer invocations call c made for its placeholder.
PlaceholderSanitizerCalls(c) ==
    {i \in 1..Len(calls[c].sanitizerCalls) : calls[c].sanitizerCalls[i].phase = "placeholder"}

(* C14: within one call the final content is treated as the placeholder    *)
(* was: sanitized exactly when the placeholder was sanitized, and then     *)
(* with the same allowed tags and allowed class names, even if other       *)
(* render calls occur while the parse is pending.                          *)

C14_FinalPolicyEqualsPlaceholderPolicy ==
    \A c \in CallIds :
        /\ calls[c].finalDecision = "sanitize" => PlaceholderSanitizerCalls(c) # {}
        /\ calls[c].finalDecision = "passthrough" => PlaceholderSanitizerCalls(c) = {}
        /\ \A i \in PlaceholderSanitizerCalls(c), j \in FinalSanitizerCalls(c) :
              calls[c].sanitizerCalls[j].policy = calls[c].sanitizerCalls[i].policy

\* While the parser's promise of call c is pending its pipeline has called
\* setValue never, and a directive rendered once shows what that render
\* left: the placeholder it returned, or nothing when it threw.
PendingParseShowsPlaceholder(c) ==
    calls[c].stage = "ParsingMarkdown"
    => /\ SetValuesOf(c) = {}
       /\ Len(calls) = 1
             => value = (IF ReturnsOf(c) # {} THEN EventAt(c, 1).value ELSE NoValue)

\* A step in which a pipeline leaves ParsingMarkdown only because the
\* parser's promise has settled: fulfilled with the parser's output, or
\* rejected by the parser; nothing else ends the wait.
C15_Step ==
    /\ \A c \in CallIds : PendingParseShowsPlaceholder(c)
    /\ \A c \in CallIds :
          (calls[c].stage = "ParsingMarkdown" /\ calls'[c].stage # "ParsingMarkdown")
          => \/ /\ ~markedRejects(calls[c].rawMarkdown)
                /\ calls'[c].stage = "SanitizingOrPassthrough"
                /\ calls'[c].rawHTML = markedParse(calls[c].rawMarkdown)
             \/ /\ markedRejects(calls[c].rawMarkdown)
                /\ calls'[c].stage = "Failed"

(* C15: there is no timeout: for as long as the parser's promise of a call *)
(* has not settled, the call's pipeline neither calls setValue nor fails,  *)
(* and with no other call the binding site goes on showing the             *)
(* placeholder.                                                            *)

C15_NoTimeout == [][C15_Step]_vars

\* The parse of the only call is still pending after the binding site has
\* been torn down, and the slot still holds the placeholder.
C15_Witness ==
    /\ Len(calls) = 1
    /\ ~connected
    /\ calls[1].stage = "ParsingMarkdown"
    /\ ReturnsOf(1) # {}
    /\ value = EventAt(1, 1).value
    /\ value.kind = "TrustedHTML"

(* C16: render never modifies the options object its caller passed: in     *)
(* every state after the call, so after it returned and after its pipeline *)
(* settled, the object has exactly the fields and values it was passed     *)
(* with; the merge writes only into its target.                            *)

C16_CallerOptionsUnmodified ==
    \A c \in CallIds :
        calls[c].options.kind = "object"
        => heap[ArgumentRef(c)] = calls[c].options.props

\* A call whose options changed the merge target has settled, and its
\* caller's object is as it was passed.
C16_Witness ==
    \E c \in CallIds :
        /\ calls[c].options.kind = "object"
        /\ calls[c].stage \in {"ValueCommitted", "Failed"}
        /\ heap[ArgumentRef(c)] = calls[c].options.props
        /\ heap[DefaultOptionsRef] # InitialDefaultOptions
        /\ heap[DefaultOptionsRef] # heap[ArgumentRef(c)]

\* The render of call c threw while computing its placeholder.
RenderThrew(c) == EventAt(c, 1).ev = "throw"

(* C17: when sanitizing loadingHTML throws, render returns no placeholder,  *)
(* yet the pipeline it had already started is not cancelled: each of its    *)
(* stages can run, it fails only by its own parse or sanitize stage, and    *)
(* when those succeed it calls setValue.                                    *)

C17_ThrowingRenderLeavesPipelineRunning ==
    \A c \in CallIds :
        RenderThrew(c)
        => /\ ReturnsOf(c) = {}
           /\ calls[c].sanitizerCalls[1].phase = "placeholder"
           /\ sanitizeHTMLThrows(calls[c].sanitizerCalls[1].html)
           /\ calls[c].stage \in AsynchronousStages \cup {"AwaitingCommit", "ValueCommitted", "Failed"}
           /\ calls[c].stage = "ParsingMarkdown"
                 => ENABLED (ParseResolve(c) \/ ParseReject(c))
           /\ calls[c].stage = "SanitizingOrPassthrough"
                 => ENABLED SanitizeOrPassthrough(c)
           /\ calls[c].stage = "AwaitingCommit" => ENABLED Commit(c)
           /\ calls[c].stage = "ValueCommitted"
                 => \E i \in SetValuesOf(c) :
                       EventAt(c, i).value =
                          [kind |-> "TrustedHTML", content |-> calls[c].preparedHTML]
           /\ calls[c].stage = "Failed"
                 => \/ markedRejects(calls[c].rawMarkdown)
                    \/ /\ calls[c].finalDecision = "sanitize"
                       /\ sanitizeHTMLThrows(calls[c].rawHTML)

\* A call whose render threw has sanitized its parser output and committed
\* it to the slot of a binding site that never showed a placeholder of it.
C17_Witness ==
    \E c \in CallIds :
        /\ RenderThrew(c)
        /\ calls[c].stage = "ValueCommitted"
        /\ calls[c].finalDecision = "sanitize"
        /\ value = [kind |-> "TrustedHTML", content |-> calls[c].preparedHTML]
        /\ calls[c].preparedHTML # NoHTML

====
